---- MODULE Spec2Model ----
(***************************************************************************)
(* The asynchronous job-dispatch core of the newsletter backend: a fixed   *)
(* fleet of worker goroutines ranging over one buffered channel of jobs,   *)
(* a sync.WaitGroup counting submitted-but-not-finished jobs, the HTTP     *)
(* handlers that submit jobs, and the main goroutine's start-up and        *)
(* termination sequence.                                                   *)
(*                                                                         *)
(* Strings of the configuration are sequences of one-character strings,    *)
(* so that strconv.Atoi is computed and not assumed.                       *)
(***************************************************************************)
EXTENDS Integers, Sequences, FiniteSets, TLC

\* ---------------------------------------------------------------- bounds
\* Largest worker count written in the WORKERS configuration value.
MaxWorkers == 2
\* Largest queue capacity written in the BUFFER_SIZE configuration value.
MaxSize == 2
\* Number of requests (hence jobs) the clients send in one run.
MaxJobs == 3

\* Two client connections: net/http serves each on a goroutine of its own
\* and runs the requests of one connection one after the other, so these
\* are two producer threads that call Submit concurrently.
Conns == {1, 2}
JobIds == 1..MaxJobs

VARIABLES
    mainPc,     \* position of the main goroutine (cmd/api/main.go)
    lsnPc,      \* position of the goroutine around server.ListenAndServe
    exited,     \* "" while the process lives, else how it ended
    workers,    \* WorkerPool.workers
    size,       \* capacity of WorkerPool.jobs
    jobs,       \* buffer of the channel WorkerPool.jobs (FIFO of job ids)
    closed,     \* whether close(wp.jobs) has run
    wg,         \* counter of the sync.WaitGroup
    wk,         \* worker goroutines: wk[i] = [pc, job, err]
    conn,       \* connection goroutines: conn[c] = [pc, job, tag]; tag
                \* records when the Submit call was made: "open" before
                \* close(wp.jobs), "late" after it, "blocked" if the call
                \* was blocked in its send when close(wp.jobs) ran
    nextJob,    \* number of jobs constructed so far (ids 1..nextJob)
    calls,      \* calls[j]: number of Process() invocations on job j
    dones,      \* dones[j]: number of wg.Done() calls made for job j
    sent,       \* jobs whose Submit has returned
    hPc,        \* position of one Subscribe call followed statement by
                \* statement, with its data
    hReq,       \* its request: path variable and body
    hSvc,       \* what it passed to and got from sh.ss.Subscribe
    hSubmits,   \* the jobs it passed to sh.wp.Submit, in order
    hResp       \* what it wrote to the http.ResponseWriter

vars == <<mainPc, lsnPc, exited, workers, size, jobs, closed, wg, wk, conn,
          nextJob, calls, dones, sent, hPc, hReq, hSvc, hSubmits, hResp>>

progVars == <<mainPc, lsnPc, exited, workers, size, jobs, closed, wg, wk, conn,
              nextJob, calls, dones, sent>>
hVars == <<hPc, hReq, hSvc, hSubmits, hResp>>

poolVars == <<workers, size, jobs, closed, wg, wk>>
jobVars == <<nextJob, calls, dones, sent>>

\* ------------------------------------------------------- strconv.Atoi
DigitChars == <<"0", "1", "2", "3", "4", "5", "6", "7", "8", "9">>

IsDigit(c) == \E i \in 1..Len(DigitChars) : DigitChars[i] = c

DigitVal(c) == (CHOOSE i \in 1..Len(DigitChars) : DigitChars[i] = c) - 1

RECURSIVE DigitsVal(_)
DigitsVal(s) ==
    IF s = <<>> THEN 0
    ELSE 10 * DigitsVal(SubSeq(s, 1, Len(s) - 1)) + DigitVal(s[Len(s)])

\* strconv.Atoi: an optional sign, then one or more decimal digits; any
\* other string is a syntax error, for which Atoi returns 0 and the error.
Atoi(s) ==
    LET signed == Len(s) > 0 /\ s[1] \in {"+", "-"}
        digits == IF signed THEN Tail(s) ELSE s
        valid  == Len(digits) > 0 /\ \A i \in 1..Len(digits) : IsDigit(digits[i])
    IN  IF ~valid THEN [val |-> 0, err |-> TRUE]
        ELSE [val |-> IF signed /\ s[1] = "-" THEN 0 - DigitsVal(digits)
                      ELSE DigitsVal(digits),
              err |-> FALSE]

\* Decimal text of a small natural number (what an operator writes in .env).
Itoa(n) == IF n < 10 THEN <<DigitChars[n + 1]>>
           ELSE <<DigitChars[(n \div 10) + 1], DigitChars[(n % 10) + 1]>>

\* Values the WORKERS and BUFFER_SIZE variables take: numbers, a negative
\* number, the empty string and text that is no number.
WorkerStrs == {Itoa(n) : n \in 0..MaxWorkers} \cup {<<"-", "1">>, <<>>, <<"x">>}
SizeStrs   == {Itoa(n) : n \in 0..MaxSize} \cup {<<"-", "1">>, <<>>, <<"x">>}

\* ------------------------------------------------------------- helpers
Range(f) == {f[x] : x \in DOMAIN f}

Alive == exited = ""

\* Jobs a worker holds: dequeued, wg.Done() not yet called.
Held == {wk[i].job : i \in {k \in DOMAIN wk : wk[k].pc \in {"got", "process", "done"}}}

\* Jobs on which Process() is running.
Executing == {wk[i].job : i \in {k \in DOMAIN wk : wk[k].pc = "process"}}

Queued == Range(jobs)

\* Jobs whose Submit has run wg.Add(1) and is at the channel send.
Sending == {conn[c].job : c \in {k \in Conns : conn[k].pc = "send"}}

Panicked == {conn[c].job : c \in {k \in Conns : conn[k].pc = "panicked"}}

Completed == {j \in JobIds : dones[j] > 0}

RECURSIVE SumCalls(_)
SumCalls(S) == IF S = {} THEN 0
               ELSE LET j == CHOOSE x \in S : TRUE
                    IN  calls[j] + SumCalls(S \ {j})

\* ---------------------------------------------------------------- Init
Init ==
    /\ mainPc = "new"
    /\ lsnPc = "none"
    /\ exited = ""
    /\ workers = 0
    /\ size = 0
    /\ jobs = <<>>
    /\ closed = FALSE
    /\ wg = 0
    /\ wk = <<>>
    /\ conn = [c \in Conns |-> [pc |-> "idle", job |-> 0, tag |-> ""]]
    /\ nextJob = 0
    /\ calls = [j \in JobIds |-> 0]
    /\ dones = [j \in JobIds |-> 0]
    /\ sent = {}
    /\ hPc = "idle"
    /\ hReq = [found |-> FALSE, newsletterID |-> "", body |-> [json |-> FALSE, email |-> ""]]
    /\ hSvc = [called |-> FALSE]
    /\ hSubmits = <<>>
    /\ hResp = [status |-> 0]

\* ------------------------------------------------ the channel wp.jobs
\* Workers parked in the receive of an empty channel.
Receivers == {i \in DOMAIN wk : wk[i].pc = "recv"}

\* A buffer that takes one value more than its capacity.
HasRoomOffByOne == Len(jobs) <= size

\* A channel made with capacity 0 that keeps one value all the same.
HasRoomZeroBuffers == Len(jobs) < (IF size = 0 THEN 1 ELSE size)

\* The buffer of the channel has a free slot.
HasRoom == Len(jobs) < size

\* An unbuffered channel passes the value straight to a parked receiver.
\* (With a buffer, a parked receiver means an empty buffer, so the send
\* finds room; the worker then takes the job by Recv.)
CanHandOff == size = 0 /\ Receivers # {}

\* The send wp.jobs <- job cannot proceed: the channel is open, its
\* buffer is full and no receiver is there to take the value.
SendBlocked ==
    /\ ~closed
    /\ ~HasRoom
    /\ ~CanHandOff

\* ------------------------------------------------------ main goroutine
\* make(chan Job, size) panics for a negative size.
MakeChanPanics(n) == n < 0

\* NewWorkerPool(workersStr, sizeStr, wg): both Atoi errors are dropped.
NewWorkerPool(workersStr, sizeStr) ==
    /\ Alive /\ mainPc = "new"
    /\ workers' = Atoi(workersStr).val
    /\ size' = Atoi(sizeStr).val
    /\ IF MakeChanPanics(Atoi(sizeStr).val)
       THEN mainPc' = "panicked" /\ exited' = "panic"
       ELSE mainPc' = "constructed" /\ exited' = exited
    /\ UNCHANGED <<lsnPc, jobs, closed, wg, wk, conn>>
    /\ UNCHANGED jobVars
    /\ UNCHANGED hVars

\* The goroutines the loop of Start launches: i = 0 .. workers-1.
StartLoop(n) == 1..n

\* go wp.worker(i) for every i of the loop: the new goroutines join
\* whatever worker goroutines w the pool already has.
Spawn(w) == w \o [i \in StartLoop(workers) |-> [pc |-> "recv", job |-> 0, err |-> FALSE]]

\* wp.Start(), as main calls it.
Start ==
    /\ Alive /\ mainPc = "constructed"
    /\ wk' = Spawn(wk)
    /\ mainPc' = "started"
    /\ UNCHANGED <<lsnPc, exited, workers, size, jobs, closed, wg, conn>>
    /\ UNCHANGED jobVars
    /\ UNCHANGED hVars

\* go func() { server.ListenAndServe() ... }(), then main blocks on <-stop.
GoListen ==
    /\ Alive /\ mainPc = "started"
    /\ mainPc' = "serving"
    /\ lsnPc' = "listen"
    /\ UNCHANGED <<exited, conn>>
    /\ UNCHANGED poolVars
    /\ UNCHANGED jobVars
    /\ UNCHANGED hVars

\* os.Interrupt arrives; main calls server.Shutdown(ctx), which first
\* closes the listeners: no request is accepted from here on.
Interrupt ==
    /\ Alive /\ mainPc = "serving"
    /\ mainPc' = "srvShutdown"
    /\ UNCHANGED <<lsnPc, exited, conn>>
    /\ UNCHANGED poolVars
    /\ UNCHANGED jobVars
    /\ UNCHANGED hVars

\* server.Shutdown(ctx) returns: every connection is idle, or the 5 s
\* context expired with handlers still running.
ServerShutdownReturns(timeout) ==
    /\ Alive /\ mainPc = "srvShutdown"
    /\ timeout \/ \A c \in Conns : conn[c].pc \in {"idle", "panicked"}
    /\ mainPc' = "wpShutdown"
    /\ UNCHANGED <<lsnPc, exited, conn>>
    /\ UNCHANGED poolVars
    /\ UNCHANGED jobVars
    /\ UNCHANGED hVars

\* wp.Shutdown(): close(wp.jobs). The buffer keeps its jobs; the senders
\* parked on the full channel are woken up (and tagged here).
Shutdown ==
    /\ Alive /\ mainPc = "wpShutdown"
    /\ closed' = TRUE
    /\ mainPc' = "wait"
    /\ conn' = [c \in Conns |->
                    IF conn[c].pc = "send" /\ SendBlocked
                    THEN [conn[c] EXCEPT !.tag = "blocked"]
                    ELSE conn[c]]
    /\ UNCHANGED <<lsnPc, exited, workers, size, jobs, wg, wk>>
    /\ UNCHANGED jobVars
    /\ UNCHANGED hVars

\* A Wait that does not look at the counter.
WaitUnblockedAlways == TRUE

\* wg.Wait() unblocks when the counter is zero.
WaitUnblocked == wg = 0

\* wp.Wait()
Wait ==
    /\ Alive /\ mainPc = "wait"
    /\ WaitUnblocked
    /\ mainPc' = "waited"
    /\ UNCHANGED <<lsnPc, exited, conn>>
    /\ UNCHANGED poolVars
    /\ UNCHANGED jobVars
    /\ UNCHANGED hVars

\* main returns: the process ends, whatever the other goroutines do.
MainReturn ==
    /\ Alive /\ mainPc = "waited"
    /\ mainPc' = "returned"
    /\ exited' = "main"
    /\ UNCHANGED <<lsnPc, conn>>
    /\ UNCHANGED poolVars
    /\ UNCHANGED jobVars
    /\ UNCHANGED hVars

\* --------------------------------------------------- listener goroutine
\* server.ListenAndServe() has bound the port and serves.
ListenServes ==
    /\ Alive /\ lsnPc = "listen" /\ mainPc = "serving"
    /\ lsnPc' = "serving"
    /\ UNCHANGED <<mainPc, exited, conn>>
    /\ UNCHANGED poolVars
    /\ UNCHANGED jobVars
    /\ UNCHANGED hVars

\* ListenAndServe always returns a non-nil error: a bind error at once,
\* or http.ErrServerClosed as soon as server.Shutdown has been called.
ListenAndServeReturned ==
    \/ lsnPc = "listen"
    \/ lsnPc \in {"listen", "serving"} /\ mainPc \notin {"started", "serving"}

\* if err := server.ListenAndServe(); err != nil { log.Fatal() }
\* log.Fatal calls os.Exit(1).
ListenerFatal ==
    /\ Alive /\ ListenAndServeReturned
    /\ lsnPc' = "fatal"
    /\ exited' = "fatal"
    /\ UNCHANGED <<mainPc, conn>>
    /\ UNCHANGED poolVars
    /\ UNCHANGED jobVars
    /\ UNCHANGED hVars

\* ------------------------------------------- Subscribe handler (producer)
\* The server takes a request of connection c and calls Subscribe.
Accept(c) ==
    /\ Alive /\ lsnPc = "serving" /\ mainPc = "serving"
    /\ conn[c].pc = "idle"
    /\ nextJob + Cardinality({k \in Conns : conn[k].pc = "handling"}) < MaxJobs
    /\ conn' = [conn EXCEPT ![c].pc = "handling"]
    /\ UNCHANGED <<mainPc, lsnPc, exited>>
    /\ UNCHANGED poolVars
    /\ UNCHANGED jobVars
    /\ UNCHANGED hVars

\* A Submit that forgets the wp.wg.Add(1).
WgAddNone(n) == n

\* A Submit that counts its job twice.
WgAddTwo(n) == n + 2

\* wp.wg.Add(1)
WgAdd(n) == n + 1

\* The handler builds its SendEmailJob and enters Submit: wp.wg.Add(1).
SubmitAdd(c) ==
    /\ Alive /\ conn[c].pc = "handling"
    /\ nextJob' = nextJob + 1
    /\ wg' = WgAdd(wg)
    /\ conn' = [conn EXCEPT ![c] = [pc |-> "send", job |-> nextJob + 1,
                                    tag |-> IF closed THEN "late" ELSE "open"]]
    /\ UNCHANGED <<mainPc, lsnPc, exited, workers, size, jobs, closed, wk>>
    /\ UNCHANGED <<calls, dones, sent>>
    /\ UNCHANGED hVars

\* A send that loses the value.
EnqueueDrops(q, j) == q

\* A send that puts the value in front of the waiting ones.
EnqueueAtFront(q, j) == <<j>> \o q

\* A send that stores the value twice.
EnqueueTwice(q, j) == Append(Append(q, j), j)

\* The buffer after a value was sent into it.
Enqueue(q, j) == Append(q, j)

\* A closed channel that still takes values.
SendPanicsNever == FALSE

\* A send on a closed channel panics.
SendPanics == closed

\* wp.jobs <- job, the second statement of Submit. net/http recovers a
\* handler's panic and drops the connection.
SubmitSend(c) ==
    /\ Alive /\ conn[c].pc = "send"
    /\ ~SendBlocked
    /\ IF SendPanics
       THEN /\ conn' = [conn EXCEPT ![c].pc = "panicked"]
            /\ UNCHANGED <<jobs, wk, calls, sent>>
       ELSE /\ conn' = [conn EXCEPT ![c].pc = "respond"]
            /\ sent' = sent \cup {conn[c].job}
            /\ IF HasRoom
               THEN /\ jobs' = Enqueue(jobs, conn[c].job)
                    /\ UNCHANGED <<wk, calls>>
               ELSE \E i \in Receivers :
                    /\ wk' = [wk EXCEPT ![i] = [pc |-> "got", job |-> conn[c].job, err |-> FALSE]]
                    /\ UNCHANGED <<jobs, calls>>
    /\ UNCHANGED <<mainPc, lsnPc, exited, workers, size, closed, wg>>
    /\ UNCHANGED <<nextJob, dones>>
    /\ UNCHANGED hVars

\* A handler that holds its response until the job has been run.
RespondWaitsForJob(c) == conn[c].job \in Completed

\* Between the return of Submit and the write of the response the
\* handler waits for nothing: Submit hands back no result to wait for.
RespondReady(c) == TRUE

\* Submit has returned: the handler writes 201 Created and returns.
Respond(c) ==
    /\ Alive /\ conn[c].pc = "respond"
    /\ RespondReady(c)
    /\ conn' = [conn EXCEPT ![c] = [pc |-> "idle", job |-> 0, tag |-> ""]]
    /\ UNCHANGED <<mainPc, lsnPc, exited>>
    /\ UNCHANGED poolVars
    /\ UNCHANGED jobVars
    /\ UNCHANGED hVars

\* ------------------------------------------------------ worker goroutine
\* A loop that ends as soon as it finds the buffer empty.
RangeEndsWhenEmpty == TRUE

\* A receive that leaves the value in the buffer.
DequeuePeeks(q) == q

\* The buffer after a receive took its first value.
Dequeue(q) == Tail(q)

\* Calls of EmailService.Send made for job j: Process() of a
\* SendEmailJob makes one call, job.Service.Send(&job.Email), and
\* returns its error.
SendCalls(j) == calls[j]

\* The range loop, finding the buffer empty, ends if the channel has
\* been closed (and parks otherwise).
RangeEnds == closed

\* for job := range wp.jobs: the worker receives the next job of the
\* buffer; the loop ends when the channel is closed and empty.
Recv(i) ==
    /\ Alive /\ i \in DOMAIN wk /\ wk[i].pc = "recv"
    /\ IF jobs # <<>>
       THEN /\ wk' = [wk EXCEPT ![i] = [pc |-> "got", job |-> Head(jobs), err |-> FALSE]]
            /\ jobs' = Dequeue(jobs)
       ELSE /\ RangeEnds
            /\ wk' = [wk EXCEPT ![i] = [pc |-> "exited", job |-> 0, err |-> FALSE]]
            /\ UNCHANGED jobs
    /\ UNCHANGED <<mainPc, lsnPc, exited, workers, size, closed, wg, conn>>
    /\ UNCHANGED jobVars
    /\ UNCHANGED hVars

\* The worker, holding the job it received, calls job.Process(). Other
\* goroutines may run between its receive and this call.
ProcessStarts(i) ==
    /\ Alive /\ i \in DOMAIN wk /\ wk[i].pc = "got"
    /\ wk' = [wk EXCEPT ![i].pc = "process"]
    /\ calls' = [calls EXCEPT ![wk[i].job] = @ + 1]
    /\ UNCHANGED <<mainPc, lsnPc, exited, workers, size, jobs, closed, wg, conn>>
    /\ UNCHANGED <<nextJob, dones, sent>>
    /\ UNCHANGED hVars

\* A worker that returns from its loop when Process() fails.
AfterProcessExitOnError(r) == IF r THEN "exited" ELSE "done"

\* What the worker does once Process() has returned r: an error is
\* logged, and the worker goes on to wg.Done() either way.
AfterProcess(r) == "done"

\* err := job.Process(): r tells whether err != nil. A Process() that
\* blocks is a behaviour in which this step never happens.
ProcessReturns(i, r) ==
    /\ Alive /\ i \in DOMAIN wk /\ wk[i].pc = "process"
    /\ wk' = [wk EXCEPT ![i].pc = AfterProcess(r), ![i].err = r]
    /\ UNCHANGED <<mainPc, lsnPc, exited, workers, size, jobs, closed, wg, conn>>
    /\ UNCHANGED jobVars
    /\ UNCHANGED hVars

\* A loop that calls wp.wg.Done() twice.
WgAfterDoneTwice(n, err) == n - 2

\* A loop that skips wp.wg.Done() when Process() failed.
WgAfterDoneSkipsOnError(n, err) == IF err THEN n ELSE n - 1

\* The counter after the wp.wg.Done() that ends a loop iteration; the
\* call is made whether err was nil or not.
WgAfterDone(n, err) == n - 1

\* wp.wg.Done(): the counter goes down by one; a negative counter panics,
\* and a panic on a worker goroutine ends the process.
Done(i) ==
    /\ Alive /\ i \in DOMAIN wk /\ wk[i].pc = "done"
    /\ wg' = WgAfterDone(wg, wk[i].err)
    /\ dones' = [dones EXCEPT ![wk[i].job] = @ + 1]
    /\ wk' = [wk EXCEPT ![i] = [pc |-> "recv", job |-> 0, err |-> FALSE]]
    /\ exited' = IF WgAfterDone(wg, wk[i].err) < 0 THEN "panic" ELSE exited
    /\ UNCHANGED <<mainPc, lsnPc, workers, size, jobs, closed, conn>>
    /\ UNCHANGED <<nextJob, calls, sent>>
    /\ UNCHANGED hVars

\* ------------------------------------------------------- specifications
WorkerStep(i) ==
    \/ Recv(i)
    \/ ProcessStarts(i)
    \/ \E r \in BOOLEAN : ProcessReturns(i, r)
    \/ Done(i)

Next ==
    \/ \E ws \in WorkerStrs, ss \in SizeStrs : NewWorkerPool(ws, ss)
    \/ Start
    \/ GoListen
    \/ Interrupt
    \/ \E t \in BOOLEAN : ServerShutdownReturns(t)
    \/ Shutdown
    \/ Wait
    \/ MainReturn
    \/ ListenServes
    \/ ListenerFatal
    \/ \E c \in Conns : Accept(c) \/ SubmitAdd(c) \/ SubmitSend(c) \/ Respond(c)
    \/ \E i \in 1..MaxWorkers : WorkerStep(i)

Spec == Init /\ [][Next]_vars

\* The pool under a caller that calls wp.Start() once more on the pool
\* main has started, at any moment of its life (ApiSpec below has the
\* program of main and in addition such repeated calls). Start reads no state
\* before its loop, so the call launches workers again.
StartAgain ==
    /\ Alive /\ mainPc \notin {"new", "constructed", "panicked", "returned"}
    /\ Len(wk) <= workers
    /\ wk' = Spawn(wk)
    /\ UNCHANGED <<mainPc, lsnPc, exited, workers, size, jobs, closed, wg, conn>>
    /\ UNCHANGED jobVars
    /\ UNCHANGED hVars

\* close of a closed channel panics.
ClosePanics == closed

\* A caller calls wp.Shutdown() on the pool main has already shut down:
\* Shutdown reads no state before close(wp.jobs), the close panics and
\* the panic, which nothing recovers, ends the process.
ShutdownAgain ==
    /\ Alive /\ mainPc \in {"wait", "waited"}
    /\ ClosePanics
    /\ exited' = "closePanic"
    /\ UNCHANGED <<mainPc, lsnPc, workers, size, jobs, closed, wg, wk, conn>>
    /\ UNCHANGED jobVars
    /\ UNCHANGED hVars

NextApi ==
    \/ Next
    \/ StartAgain
    \/ ShutdownAgain
    \/ \E i \in (MaxWorkers + 1)..(2 * MaxWorkers) : WorkerStep(i)

ApiSpec == Init /\ [][NextApi]_vars

\* ------------------------------------- Subscribe, statement by statement
\* One call of SubscriptionHandler.Subscribe with its request, the
\* subscription its service returns, the job it builds and the response
\* it writes. The pool behind sh.wp is the JobSubmiter interface: here
\* Submit only records the job it is given.
StatusCreated == 201
StatusBadRequest == 400
StatusInternalServerError == 500

NewsletterIDs == {"news-1", "news-2"}
Emails == {"user@test.com", "other@test.com", ""}

\* Request bodies: one that is no JSON, and JSON objects with an email
\* (an object without the key decodes like one with the empty email).
Bodies == {[json |-> FALSE, email |-> ""]} \cup {[json |-> TRUE, email |-> e] : e \in Emails}

\* Subscriptions a domain.SubscriptionService may return.
Subscriptions ==
    [ID : {"sub-123", "sub-456"}, NewsletterID : NewsletterIDs, Email : Emails,
     UnsubscribeToken : {"token-123"},
     CreatedAt : {"2026-01-10T12:00:00Z", "2026-01-11T12:00:00Z"}]

\* A job addressed to the email of the request instead.
JobToRequestEmail(request, newSubscription) == request.Email

\* Email.To of the job: To: newSubscription.Email.
JobTo(request, newSubscription) == newSubscription.Email

\* jobs.SendEmailJob{Email: notifications.Email{To, Subject, Text, HTML}}:
\* Text and HTML carry the unsubscribe link made of the token.
SendEmailJob(request, newSubscription) ==
    [To |-> JobTo(request, newSubscription),
     Subject |-> "Confirmation",
     Token |-> newSubscription.UnsubscribeToken]

\* SubscribeResponse{...} under its json tags.
SubscribeResponse(newSubscription) ==
    [id |-> newSubscription.ID,
     newsletter_id |-> newSubscription.NewsletterID,
     email |-> newSubscription.Email,
     created_at |-> newSubscription.CreatedAt]

\* A decoder that takes any body.
DecodeNeverFails(body) == [err |-> FALSE, request |-> [Email |-> body.email]]

\* json.NewDecoder(r.Body).Decode(&request)
Decode(body) ==
    IF body.json THEN [err |-> FALSE, request |-> [Email |-> body.email]]
    ELSE [err |-> TRUE, request |-> [Email |-> ""]]

\* A request reaches the handler; the route may or may not have set the
\* newsletter_id path variable.
HRequest(found, id, body) ==
    /\ hPc = "idle"
    /\ hReq' = [found |-> found, newsletterID |-> IF found THEN id ELSE "", body |-> body]
    /\ hPc' = "vars"
    /\ UNCHANGED <<hSvc, hSubmits, hResp>>
    /\ UNCHANGED progVars

\* newsletterID, found := vars["newsletter_id"]; 400 if !found
HVars ==
    /\ hPc = "vars"
    /\ IF hReq.found
       THEN hPc' = "decode" /\ UNCHANGED hResp
       ELSE hPc' = "returned" /\ hResp' = [status |-> StatusBadRequest]
    /\ UNCHANGED <<hReq, hSvc, hSubmits>>
    /\ UNCHANGED progVars

\* Decode of the body; 400 on an error
HDecode ==
    /\ hPc = "decode"
    /\ IF Decode(hReq.body).err
       THEN hPc' = "returned" /\ hResp' = [status |-> StatusBadRequest]
       ELSE hPc' = "service" /\ UNCHANGED hResp
    /\ UNCHANGED <<hReq, hSvc, hSubmits>>
    /\ UNCHANGED progVars

\* newSubscription, err := sh.ss.Subscribe(&subscription); 500 on an error
HService(err, newSubscription) ==
    /\ hPc = "service"
    /\ hSvc' = [called |-> TRUE,
                arg |-> [NewsletterID |-> hReq.newsletterID,
                         Email |-> Decode(hReq.body).request.Email],
                err |-> err,
                sub |-> newSubscription]
    /\ IF err
       THEN hPc' = "returned" /\ hResp' = [status |-> StatusInternalServerError]
       ELSE hPc' = "submit" /\ UNCHANGED hResp
    /\ UNCHANGED <<hReq, hSubmits>>
    /\ UNCHANGED progVars

\* job := jobs.SendEmailJob{...}; sh.wp.Submit(&job)
HSubmit ==
    /\ hPc = "submit"
    /\ hSubmits' = Append(hSubmits, SendEmailJob(Decode(hReq.body).request, hSvc.sub))
    /\ hPc' = "respond"
    /\ UNCHANGED <<hReq, hSvc, hResp>>
    /\ UNCHANGED progVars

\* w.WriteHeader(http.StatusCreated); json.NewEncoder(w).Encode(...)
HRespond ==
    /\ hPc = "respond"
    /\ hResp' = [status |-> StatusCreated, body |-> SubscribeResponse(hSvc.sub)]
    /\ hPc' = "returned"
    /\ UNCHANGED <<hReq, hSvc, hSubmits>>
    /\ UNCHANGED progVars

NextHandler ==
    \/ \E found \in BOOLEAN, id \in NewsletterIDs, body \in Bodies : HRequest(found, id, body)
    \/ HVars
    \/ HDecode
    \/ \E newSubscription \in Subscriptions : HService(FALSE, newSubscription)
    \/ HService(TRUE, [ID |-> "", NewsletterID |-> "", Email |-> "",
                       UnsubscribeToken |-> "", CreatedAt |-> ""])
    \/ HSubmit
    \/ HRespond

HandlerSpec == Init /\ [][NextHandler]_vars

\* The Go scheduler runs every runnable goroutine: the workers, the main
\* goroutine once the signal has come, the listener goroutine and the
\* handlers; Process() calls return. When the interrupt comes and when
\* clients send requests is not up to the program.
Fairness ==
    /\ \A i \in 1..MaxWorkers : WF_vars(WorkerStep(i))
    /\ WF_vars(\E t \in BOOLEAN : ServerShutdownReturns(t))
    /\ WF_vars(Shutdown)
    /\ WF_vars(Wait)
    /\ WF_vars(MainReturn)
    /\ WF_vars(ListenerFatal)
    /\ \A c \in Conns : WF_vars(SubmitAdd(c) \/ SubmitSend(c) \/ Respond(c))

FairSpec == Spec /\ Fairness

\* ================================================================ claims
\* The step in which wp.Wait() returns to main.
WaitReturns == mainPc = "wait" /\ mainPc' = "waited"

\* Jobs whose Submit has started (its wg.Add(1) has run).
Submitted == 1..nextJob

\* C1: when Wait() returns after Shutdown(), Process() has been called
\* exactly N times for the N jobs passed to Submit, once on each of them:
\* none was dropped and none was run twice.
C1_ExactlyOnceAtWait ==
    [][WaitReturns =>
        /\ \A j \in Submitted : calls[j] = 1
        /\ SumCalls(JobIds) = nextJob]_vars

C1_Witness ==
    /\ mainPc = "waited"
    /\ workers >= 1
    /\ nextJob >= 2
    /\ SumCalls(JobIds) = nextJob

\* C2: Wait() returns only with the counter at zero; no job whose Submit
\* has started is then still at the channel send, in the buffer, or inside
\* Process().
C2_WaitOnlyAtZero ==
    [][WaitReturns =>
        /\ wg = 0
        /\ Sending \cup Queued \cup Executing = {}]_vars

C2_Witness ==
    /\ mainPc = "waited"
    /\ wg = 0
    /\ Completed = Submitted
    /\ nextJob >= 2

\* C3: a Submit made after Shutdown() does not panic: it is rejected or
\* it blocks, and the calling goroutine goes on.
C3_SubmitAfterShutdownDoesNotPanic ==
    \A c \in Conns : conn[c].pc # "panicked"

\* The step in which main runs wp.Shutdown().
ShutdownRuns == ~closed /\ closed'

\* C4: Shutdown() cancels no queued or in-flight job, and with at least
\* one worker and Process() calls that return, each job that is queued or
\* in flight once the channel is closed is eventually completed.
C4_PendingJobsCompleteAfterShutdown ==
    /\ [][ShutdownRuns => jobs' = jobs /\ wk' = wk]_vars
    /\ \A j \in JobIds :
         (closed /\ workers >= 1 /\ j \in Queued \cup Held) ~> (j \in Completed)

\* C5: whatever the WORKERS value, once Start() has run the pool has at
\* least one worker goroutine (or the configuration was rejected).
C5_StartedPoolHasAWorker ==
    mainPc \notin {"new", "constructed", "panicked"} => Cardinality(DOMAIN wk) >= 1

\* Jobs on which Process() has been called and has returned.
ProcessFinished == {j \in JobIds : calls[j] >= 1 /\ j \notin Executing}

\* C6: the process does not exit, on any path, before every job that a
\* handler submitted has completed Process().
C6_NoExitBeforeJobsFinish ==
    exited # "" => sent \subseteq ProcessFinished

\* The step in which the Submit of connection c returns.
SubmitReturns(c) == conn[c].pc = "send" /\ conn'[c].pc = "respond"

NoProcessReturned ==
    /\ \A j \in JobIds : dones[j] = 0
    /\ \A i \in DOMAIN wk : wk[i].pc # "done"

PoolRunning == mainPc \in {"started", "serving", "srvShutdown", "wpShutdown"} /\ ~closed

\* C8 as stated: once C+1 jobs whose Process() blocks were submitted, the
\* next Submit blocks.
C8_BlocksAfterCapacityPlusOne ==
    (PoolRunning /\ workers >= 1 /\ NoProcessReturned /\ Cardinality(sent) = size + 1)
        => \A c \in Conns : conn[c].pc = "send" => SendBlocked

\* C8 amended: once C+W jobs whose Process() blocks were submitted, the
\* next Submit blocks, and it cannot return while no job is dequeued: no
\* more than C+W Submit calls return.
C8_BlocksAfterCapacityPlusWorkers ==
    (PoolRunning /\ workers >= 1 /\ NoProcessReturned) =>
        /\ Cardinality(sent) <= size + workers
        /\ Cardinality(sent) = size + workers =>
               \A c \in Conns : conn[c].pc = "send" => SendBlocked

C8_Witness ==
    /\ PoolRunning /\ workers = 2 /\ NoProcessReturned
    /\ Cardinality(sent) = size + workers
    /\ \E c \in Conns : conn[c].pc = "send" /\ SendBlocked

\* The step in which the Process() call of worker i returns an error.
ProcessFails(i) == wk[i].pc = "process" /\ wk'[i].pc # "process" /\ wk'[i].err

\* C9: a Process() that returns an error ends only its own iteration: the
\* worker goes on to wg.Done() and back to the receive, the job is not put
\* back in the queue, no other worker or job is touched, and no job is
\* ever run twice.
C9_ErrorIsolated ==
    /\ [](\A j \in JobIds : calls[j] <= 1)
    /\ [][\A i \in DOMAIN wk :
            /\ ProcessFails(i) =>
                 /\ wk'[i].pc = "done" /\ wk'[i].job = wk[i].job
                 /\ jobs' = jobs /\ calls' = calls /\ wg' = wg
                 /\ \A k \in DOMAIN wk \ {i} : wk'[k] = wk[k]
            /\ (wk[i].pc = "done" /\ wk[i].err /\ wk'[i] # wk[i]) =>
                 wk'[i].pc = "recv" /\ wg' = wg - 1
         ]_vars

C9_Witness ==
    /\ workers = 1 /\ Len(wk) = 1
    /\ wk[1].pc = "done" /\ wk[1].err
    /\ Cardinality(Completed) >= 1
    /\ jobs # <<>>

\* Nothing is pending: every job passed to Submit has been completed.
Quiescent == Completed = Submitted

\* C10: with the connections submitting concurrently, the counter is the
\* number of jobs added and not yet done (no increment or decrement is
\* lost or doubled), no Submit panics while the pool runs, and when all
\* K jobs of all M producers are completed Process() has run M*K times
\* and the counter is back at 0.
C10_ConcurrentProducers ==
    /\ wg = nextJob - Cardinality(Completed)
    /\ \A j \in JobIds : dones[j] <= 1
    /\ ~closed => Panicked = {}
    /\ Quiescent => SumCalls(JobIds) = nextJob /\ wg = 0

C10_Witness ==
    /\ nextJob = MaxJobs
    /\ Quiescent
    /\ ~closed
    /\ workers = 2
    /\ wg = 0

\* C11 (as stated): the counter is at least the number of queued jobs
\* plus the number of jobs in Process(), and it is 0 exactly when every
\* job whose Submit has started has completed Process().
C11_ZeroExactlyWhenProcessFinished ==
    /\ wg >= Cardinality(Queued) + Cardinality(Executing)
    /\ (wg = 0) <=> (Submitted \subseteq ProcessFinished)

\* C11 (amended): the counter is at least the number of queued jobs plus
\* the number of jobs in Process(); it is 0 exactly when the worker of
\* every job whose Submit has started has called wg.Done() for it, which
\* comes after Process() has returned; so a counter of 0 implies that
\* every such job has completed Process(), and not the other way round.
C11_ZeroExactlyWhenDone ==
    /\ wg >= Cardinality(Queued) + Cardinality(Executing)
    /\ (wg = 0) <=> (Submitted = Completed)
    /\ (wg = 0) => (Submitted \subseteq ProcessFinished)

\* Every Process() call has returned, the last worker has not yet called
\* wg.Done(): the counter is still 1.
C11_Witness ==
    /\ nextJob >= 2
    /\ Submitted \subseteq ProcessFinished
    /\ wg = 1
    /\ \E i \in DOMAIN wk : wk[i].pc = "done"

\* C12: once Shutdown has been called no new submission is accepted: the
\* job of a Submit call that started after close(wp.jobs) never enters
\* the queue, is never handed to a worker and never has Process() called
\* on it, and that Submit call never returns.
C12_NoSubmissionAfterShutdown ==
    \A c \in Conns : conn[c].tag = "late" =>
        /\ conn[c].pc \in {"send", "panicked"}
        /\ conn[c].job \notin Queued \cup Held \cup sent
        /\ calls[conn[c].job] = 0

\* A Submit that started after Shutdown has ended (by its panic), in a
\* pool that took and processed an earlier job.
C12_Witness ==
    /\ closed
    /\ \E c \in Conns : conn[c].tag = "late" /\ conn[c].pc = "panicked"
    /\ Completed # {}

\* The step in which the handler of connection c writes its response.
WritesResponse(c) == conn[c].pc = "respond" /\ conn'[c].pc = "idle"

\* C13 (as stated): no worker begins Process() on a job before the
\* handler that submitted it has written its HTTP response.
C13_ProcessOnlyAfterResponse ==
    \A c \in Conns : conn[c].pc \in {"send", "respond"} => calls[conn[c].job] = 0

\* C13 (amended): the handler does not wait for its job. It writes the
\* response after Submit has returned, that is once the job is in the
\* queue or in a worker's hands, and it can do so whether Process() has
\* not begun, is running or has returned; writing the response touches
\* nothing of the pool.
C13_ResponseDoesNotWaitForJob ==
    /\ [](\A c \in Conns : (Alive /\ conn[c].pc = "respond") => ENABLED Respond(c))
    /\ [][\A c \in Conns : WritesResponse(c) =>
            /\ conn[c].job \in sent
            /\ conn[c].job \in Queued \cup Held \cup Completed
            /\ UNCHANGED <<jobs, wk, wg, calls, dones>>]_vars

\* Two handlers about to write their responses: the job of one is still
\* in the queue, the job of the other has already been run.
C13_Witness ==
    \E c, d \in Conns :
        /\ conn[c].pc = "respond" /\ conn[c].job \in Queued
        /\ conn[d].pc = "respond" /\ conn[d].job \in Completed

\* Worker goroutines that have not returned from their loop.
LiveWorkers == {i \in DOMAIN wk : wk[i].pc # "exited"}

\* C14: the number of live worker goroutines never exceeds the
\* configured worker count: Start spawns exactly that many, and a second
\* Start call spawns none.
C14_LiveWorkersAtMostWorkerCount ==
    /\ Cardinality(LiveWorkers) <= (IF workers > 0 THEN workers ELSE 0)
    /\ mainPc \in {"started", "serving"} =>
            Len(wk) = (IF workers > 0 THEN workers ELSE 0)

\* C15: whatever the BUFFER_SIZE string (empty, no number, negative),
\* NewWorkerPool does not panic and the pool it returns has a capacity
\* that is no less than 0.
C15_InvalidCapacityNeverPanics ==
    /\ mainPc # "panicked"
    /\ mainPc # "new" => size >= 0

\* C16: with capacity 0 nothing is buffered: the queue is always empty,
\* a Submit returns only in the step in which a worker that was ready to
\* receive takes its job, and while every worker is busy a Submit at its
\* send stays blocked.
C16_UnbufferedHandsOff ==
    /\ [](size = 0 => jobs = <<>>)
    /\ [](size = 0 /\ ~closed /\ Receivers = {} =>
            \A c \in Conns : conn[c].pc = "send" => SendBlocked)
    /\ [][size = 0 => \A c \in Conns :
            /\ SubmitReturns(c) =>
                    \E i \in DOMAIN wk : /\ wk[i].pc = "recv"
                                         /\ wk'[i].pc = "got"
                                         /\ wk'[i].job = conn[c].job
            /\ (conn[c].pc = "send" /\ SendBlocked) =>
                    conn'[c].pc = "send" /\ sent' = sent]_vars

\* An unbuffered pool whose workers are all busy, with a Submit blocked
\* at its send, after an earlier job went through by hand-off.
C16_Witness ==
    /\ size = 0 /\ workers >= 1 /\ ~closed
    /\ \A i \in DOMAIN wk : wk[i].pc = "process"
    /\ \E c \in Conns : conn[c].pc = "send" /\ SendBlocked
    /\ Completed # {}

\* C17: in every state of a constructed pool the number of jobs in the
\* queue is between 0 and the capacity fixed by NewWorkerPool, and that
\* capacity never changes afterwards.
C17_QueueWithinCapacity ==
    /\ [](mainPc # "panicked" => 0 <= Len(jobs) /\ Len(jobs) <= size)
    /\ [][mainPc # "new" => size' = size]_vars

\* A full queue of the largest capacity with a producer held back, in a
\* pool that has workers.
C17_Witness ==
    /\ size = MaxSize /\ Len(jobs) = size
    /\ \E c \in Conns : conn[c].pc = "send" /\ SendBlocked
    /\ workers >= 1 /\ Len(wk) = workers

\* The lifecycle state of the pool, which the code does not store, read
\* off its channel and goroutines: 0 no pool, 1 Created, 2 Running,
\* 3 ShuttingDown (channel closed), 4 Stopped (channel closed and
\* drained, every worker goroutine has returned).
Lifecycle ==
    IF mainPc \in {"new", "panicked"} THEN 0
    ELSE IF closed
         THEN (IF jobs = <<>> /\ LiveWorkers = {} THEN 4 ELSE 3)
         ELSE (IF mainPc = "constructed" THEN 1 ELSE 2)

C19_SubscribeSuccess ==
    (hPc = "returned" /\ hSvc.called /\ ~hSvc.err) =>
        /\ Len(hSubmits) = 1
        /\ hSubmits[1].To = hSvc.sub.Email
        /\ hSubmits[1].Token = hSvc.sub.UnsubscribeToken
        /\ hResp.status = 201
        /\ hResp.body.id = hSvc.sub.ID
        /\ hResp.body.newsletter_id = hSvc.sub.NewsletterID
        /\ hResp.body.email = hSvc.sub.Email
        /\ hResp.body.created_at = hSvc.sub.CreatedAt

\* A call that has returned 201 for a subscription whose email differs
\* from the email of the request and whose newsletter id differs from
\* the id of the path.
C19_Witness ==
    /\ hPc = "returned" /\ hSvc.called /\ ~hSvc.err
    /\ hResp.status = 201
    /\ hSvc.sub.Email # hSvc.arg.Email
    /\ hSvc.sub.NewsletterID # hSvc.arg.NewsletterID

\* C20: a Submit that was blocked on the full queue when Shutdown was
\* called does not crash its caller (its job is then either enqueued and
\* run once, or refused with the counter put back).
C20_BlockedSubmitSurvivesShutdown ==
    \A c \in Conns : (conn[c].tag = "blocked" /\ size >= 1 /\ workers >= 1) =>
        conn[c].pc # "panicked"

\* C21: the counter counts only jobs that are queued or in flight: once
\* a Submit made after Shutdown has ended without its job enqueued, the
\* counter is the number of jobs that are at their send, in the queue or
\* in a worker's hands (so that Wait still returns when those are done).
C21_LateSubmitLeavesCounter ==
    \A c \in Conns :
        (/\ conn[c].tag = "late" /\ conn[c].pc = "panicked"
         /\ Panicked = {conn[c].job} /\ workers >= 1) =>
            wg = Cardinality(Sending \cup Queued \cup Held)

\* C22: in the composed program no handler calls Submit after main has
\* called wp.Shutdown(): every Submit starts while the channel is open.
C22_NoSubmitAfterShutdown ==
    \A c \in Conns : conn[c].pc \in {"send", "respond", "panicked"} => conn[c].tag # "late"

\* C23: once Shutdown has been called on a started pool that has a
\* worker, with every Process() call returning, Wait eventually returns.
C23_WaitEventuallyReturns ==
    (closed /\ workers >= 1 /\ mainPc = "wait") ~> (mainPc \in {"waited", "returned"})

\* The step in which worker i returns from its loop.
WorkerExits(i) == wk[i].pc # "exited" /\ wk'[i].pc = "exited"

\* C24: a worker exits only in a state where the channel is closed and
\* the queue is empty, and only from its receive, not from a Process()
\* call, whatever that call returned.
C24_WorkerExitsOnlyClosedAndEmpty ==
    /\ [][\A i \in DOMAIN wk : WorkerExits(i) =>
            /\ closed /\ jobs = <<>>
            /\ wk[i].pc = "recv"
            /\ jobs' = jobs /\ wg' = wg]_vars
    /\ [](\A i \in DOMAIN wk : wk[i].pc = "exited" => closed)

\* One worker has exited while the other, whose Process() call failed,
\* is about to call wg.Done() for the last job of the pool.
C24_Witness ==
    /\ \E i \in DOMAIN wk : wk[i].pc = "exited"
    /\ \E i \in DOMAIN wk : wk[i].pc = "done" /\ wk[i].err
    /\ nextJob >= 2 /\ Cardinality(Completed) = nextJob - 1

\* C25: after Shutdown on a pool that has workers, with every Process()
\* call returning, every worker eventually exits and the pool is
\* Stopped: channel closed and empty, no job in flight, no live worker.
C25_PoolEventuallyStopped ==
    (closed /\ workers >= 1) ~> (Lifecycle = 4 /\ Held = {})

\* C26: in every state each submitted job is in the queue at most once,
\* has been taken by at most one worker and has had Process() invoked at
\* most once, so that a SendEmailJob made at most one EmailService.Send
\* call; a job that is done is neither queued nor held again.
C26_AtMostOnce ==
    \A j \in JobIds :
        /\ calls[j] <= 1
        /\ SendCalls(j) <= 1
        /\ Cardinality({i \in DOMAIN wk : wk[i].pc \in {"got", "process", "done"} /\ wk[i].job = j})
             + Cardinality({k \in DOMAIN jobs : jobs[k] = j}) <= 1
        /\ j \in Completed => j \notin Queued \cup Held
        /\ j \in Queued => calls[j] = 0

\* Two workers have each run jobs, three jobs were run in all and the
\* channel is still open.
C26_Witness ==
    /\ workers = 2 /\ ~closed
    /\ SumCalls(JobIds) = MaxJobs
    /\ Cardinality(Held) = 2

\* C27: for each job the counter goes up exactly once, in the Submit of
\* that job and before the job is in the queue or with a worker, and
\* goes down exactly once, by the worker that ran it, after Process()
\* on it has returned, with or without an error; the counter moves in
\* no other step and is never negative.
C27_CounterOncePerJob ==
    /\ [](wg >= 0)
    /\ [](\A j \in JobIds :
            /\ dones[j] <= 1
            /\ dones[j] = 1 => (calls[j] = 1 /\ j \notin Executing)
            /\ j \in Queued \cup Held \cup sent => j \in Submitted)
    /\ [][/\ wg' \in {wg - 1, wg, wg + 1}
           /\ (wg' = wg + 1) <=> (nextJob' = nextJob + 1)
           /\ (wg' = wg + 1) => (nextJob + 1) \notin Range(jobs') \cup
                    {wk'[i].job : i \in DOMAIN wk'}
           /\ (wg' = wg - 1) <=> (\E j \in JobIds : dones'[j] # dones[j])
           /\ \A j \in JobIds : dones'[j] # dones[j] =>
                    /\ dones'[j] = dones[j] + 1
                    /\ \E i \in DOMAIN wk : wk[i].pc = "done" /\ wk[i].job = j]_vars

\* All jobs but one are done; Process() on the last one has failed and
\* the counter stands at one until its worker calls wg.Done().
C27_Witness ==
    /\ nextJob = MaxJobs /\ Cardinality(Completed) = MaxJobs - 1
    /\ \E i \in DOMAIN wk : wk[i].pc = "done" /\ wk[i].err
    /\ wg = 1 /\ ~closed

\* The step in which worker i receives a job from the channel.
Dequeues(i) == wk[i].pc = "recv" /\ wk'[i].pc = "got"

\* The queue changes only by a job entering at its end or by a worker
\* receiving the job at its head; the jobs behind keep their order.
FifoSteps ==
    jobs' # jobs =>
        \/ \E j \in JobIds : j \notin Range(jobs) /\ jobs' = Append(jobs, j)
        \/ /\ jobs # <<>> /\ jobs' = Tail(jobs)
           /\ \E i \in DOMAIN wk : Dequeues(i) /\ wk'[i].job = Head(jobs)

\* C28 (as stated): jobs leave the queue in the order they entered it,
\* and the worker that dequeued a job has started Process() on it
\* before any worker dequeues the next job.
C28_StartsBeforeNextDequeue ==
    [][/\ FifoSteps
       /\ \A i \in DOMAIN wk : Dequeues(i) =>
                \A k \in DOMAIN wk \ {i} : wk[k].pc # "got"]_vars

\* C28 (amended): jobs leave the queue in the order they entered it: a
\* worker always receives the job at the head. With two or more workers
\* neither the order in which Process() starts nor the order in which
\* it returns is constrained: a worker may receive the next job before
\* the previous one's Process() has begun, and any running Process()
\* may return first. With exactly one worker a job is received only
\* after the previous job is done, so jobs start and complete in queue
\* order.
C28_FifoDequeue ==
    /\ [][FifoSteps]_vars
    /\ [](Len(wk) = 1 => Cardinality(Held) <= 1)
    /\ [](Alive => \A i \in DOMAIN wk :
                wk[i].pc = "process" => ENABLED ProcessReturns(i, FALSE))

\* One worker has received the head of the queue and not yet called
\* Process(), the other is already running the job that was behind it,
\* and a third job waits in the queue.
C28_Witness ==
    /\ Len(wk) = 2 /\ size = MaxSize
    /\ \E i, k \in DOMAIN wk : wk[i].pc = "got" /\ wk[k].pc = "process"
    /\ jobs # <<>>

\* C29: a second call of Shutdown does not crash its caller (and leaves
\* queue, counter and closed status as the first call left them).
C29_SecondShutdownHarmless == exited # "closePanic"

\* C30: the handler calls Submit only after the subscription was
\* created. A call that returns because the newsletter id is missing or
\* the body is invalid has written 400 without calling the service, one
\* whose service call failed has written 500, and in all three Submit
\* was not called, which leaves the queue and the counter of the pool as
\* they were.
C30_FailurePathsNeverSubmit ==
    /\ (hPc = "returned" /\ ~hReq.found) =>
            hResp.status = 400 /\ ~hSvc.called /\ hSubmits = <<>>
    /\ (hPc = "returned" /\ hReq.found /\ ~hReq.body.json) =>
            hResp.status = 400 /\ ~hSvc.called /\ hSubmits = <<>>
    /\ (hPc = "returned" /\ hSvc.called /\ hSvc.err) =>
            hResp.status = 500 /\ hSubmits = <<>>
    /\ hSubmits # <<>> => (hSvc.called /\ ~hSvc.err /\ Len(hSubmits) = 1)
    /\ hSubmits = <<>> => (jobs = <<>> /\ wg = 0)

\* A call has returned 500 after its service call failed, for a request
\* that had a newsletter id and a valid body.
C30_Witness ==
    /\ hPc = "returned" /\ hSvc.called /\ hSvc.err
    /\ hReq.found /\ hReq.body.json
    /\ hResp.status = 500
====
